---- MODULE Spec2Model ----
(***************************************************************************)
(* HyperLogLog estimator of src/src/hll.rs, as a state machine.            *)
(*                                                                         *)
(* Representation choices:                                                 *)
(*  - a u64 is a sequence of 64 bits, most significant bit first;          *)
(*  - the register vector m: Vec<u8> is [len, nz]: its length and the      *)
(*    function from the indices of its non-zero entries to their values    *)
(*    (every index below len outside DOMAIN nz holds 0);                   *)
(*  - an f64 is an exact rational [n, d] of unbounded naturals (sequences  *)
(*    of base-2^15 digits, least significant first); ln and sqrt are not   *)
(*    computable exactly and stay symbolic, except ln(1) = 0;              *)
(*  - a binding moved out of the caller (self by value) leaves `live`;     *)
(*    est[e] then keeps the value the callee held when it dropped it.      *)
(***************************************************************************)
EXTENDS Integers, Sequences, FiniteSets, TLC

VARIABLES
    est,      \* binding -> HyperLogLog struct {b, hasher, m_counters, m, alpha}
    live,     \* the bindings the caller still owns (not moved)
    call,     \* the last call: its arguments, locals and result
    added     \* history: binding -> the set of strings passed to add on it

vars == <<est, live, call, added>>

\* Bound: how many distinct strings one estimator is fed.
MaxAdds == 2

\* The caller's bindings (let mut a = new(); let mut b = new();).
Handles == {"h1", "h2"}

\* The strings the caller feeds to add.
Values == {"w0", "w1", "w2", "w3"}

\* Values a caller writes into the pub field b.
PubBits == {14}

------------------------------------------------------------------------------
\* u64 as 64 bits, most significant first.

Word(ones) == [i \in 1..64 |-> IF i \in ones THEN 1 ELSE 0]

\* A shift one bit short.
ShrShort(x, n) == [i \in 1..64 |-> IF i <= n - 1 THEN 0 ELSE x[i - (n - 1)]]

\* x >> n on u64, 0 <= n < 64.
Shr(x, n) == [i \in 1..64 |-> IF i <= n THEN 0 ELSE x[i - n]]

\* (1 << n) - 1 on u64, 0 <= n < 64: the low n bits set.
LowMask(n) == [i \in 1..64 |-> IF i > 64 - n THEN 1 ELSE 0]

\* x & y on u64.
BitAnd(x, y) == [i \in 1..64 |-> x[i] * y[i]]

\* x ^ y on u64.
BitXor(x, y) == [i \in 1..64 |-> (x[i] + y[i]) % 2]

\* x.rotate_left(1) on u64.
RotL1(x) == [i \in 1..64 |-> IF i = 64 THEN x[1] ELSE x[i + 1]]

\* u64::leading_zeros: the zero bits above the highest set bit, 64 for 0.
leading_zeros(x) ==
    IF \A i \in 1..64 : x[i] = 0 THEN 64
    ELSE (CHOOSE i \in 1..64 : x[i] = 1 /\ \A k \in 1..(i - 1) : x[k] = 0) - 1

\* The number written by the bits lo..hi of x, by halves.
RECURSIVE BitsValue(_, _, _)
BitsValue(x, lo, hi) ==
    IF lo = hi THEN x[lo]
    ELSE LET mid  == (lo + hi) \div 2
             high == BitsValue(x, lo, mid)
         IN  IF high = 0 THEN BitsValue(x, mid + 1, hi)
             ELSE high * 2 ^ (hi - mid) + BitsValue(x, mid + 1, hi)

\* The numeric value of a u64 (as usize); used where it is below 2^31.
ToNat(x) == BitsValue(x, 1, 64)

------------------------------------------------------------------------------
\* DefaultHasher. Its state is the sequence of strings written into it;
\* finish() is SipHash of that state. SipTable gives the 64-bit outputs for
\* the one-string states: patterns that cover the all-zero word, the
\* all-one word, two words of the same register with different ranks and
\* words of different registers.

DefaultHasher_new == << >>

SipTable ==
    [v \in Values |->
        CASE v = "w0" -> Word({})
          [] v = "w1" -> Word({64})
          [] v = "w2" -> Word(1..64)
          [] v = "w3" -> Word({15, 16, 30})]

\* data.hash(&mut hasher)
HashWrite(hasher, data) == Append(hasher, data)

\* hasher.finish()
RECURSIVE Finish(_)
Finish(hasher) ==
    IF hasher = << >> THEN Word({1})
    ELSE IF Len(hasher) = 1 THEN SipTable[hasher[1]]
    ELSE BitXor(RotL1(Finish(SubSeq(hasher, 1, Len(hasher) - 1))),
                SipTable[hasher[Len(hasher)]])

------------------------------------------------------------------------------
\* Vec<u8>

\* vec![0; n]
VecZero(n) == [len |-> n, nz |-> << >>]

\* v[j], j < v.len
VecGet(v, j) == IF j \in DOMAIN v.nz THEN v.nz[j] ELSE 0

\* v[j] = x, j < v.len
VecSet(v, j, x) ==
    [len |-> v.len,
     nz  |-> [k \in (IF x = 0 THEN DOMAIN v.nz \ {j} ELSE DOMAIN v.nz \cup {j})
                |-> IF k = j THEN x ELSE v.nz[k]]]

\* How many entries of v are 0.
VecZeros(v) == v.len - Cardinality(DOMAIN v.nz)

MaxBad(a, b) == b

\* std::cmp::max
Max(a, b) == IF a >= b THEN a ELSE b

------------------------------------------------------------------------------
\* Unbounded naturals: digits in base 2^15, least significant first, no
\* leading zero digit (0 is the empty sequence).

Base == 2 ^ 15

RECURSIVE BigNorm(_)
BigNorm(a) ==
    IF a = << >> THEN a
    ELSE IF a[Len(a)] = 0 THEN BigNorm(SubSeq(a, 1, Len(a) - 1))
    ELSE a

RECURSIVE Big(_)
Big(n) == IF n = 0 THEN << >> ELSE <<n % Base>> \o Big(n \div Base)

Digit(a, i) == IF i <= Len(a) THEN a[i] ELSE 0

RECURSIVE AddFrom(_, _, _, _)
AddFrom(a, b, i, carry) ==
    IF i > Len(a) /\ i > Len(b)
    THEN IF carry = 0 THEN << >> ELSE <<carry>>
    ELSE LET s == Digit(a, i) + Digit(b, i) + carry
         IN  <<s % Base>> \o AddFrom(a, b, i + 1, s \div Base)

BigAdd(a, b) == AddFrom(a, b, 1, 0)

\* a - b for a >= b.
RECURSIVE SubFrom(_, _, _, _)
SubFrom(a, b, i, borrow) ==
    IF i > Len(a) THEN << >>
    ELSE LET d == a[i] - Digit(b, i) - borrow
         IN  IF d < 0 THEN <<d + Base>> \o SubFrom(a, b, i + 1, 1)
             ELSE <<d>> \o SubFrom(a, b, i + 1, 0)

BigSub(a, b) == BigNorm(SubFrom(a, b, 1, 0))

\* a * d for one digit d.
RECURSIVE MulSmallFrom(_, _, _, _)
MulSmallFrom(a, d, i, carry) ==
    IF i > Len(a)
    THEN IF carry = 0 THEN << >> ELSE <<carry>>
    ELSE LET p == a[i] * d + carry
         IN  <<p % Base>> \o MulSmallFrom(a, d, i + 1, p \div Base)

BigMulSmall(a, d) == BigNorm(MulSmallFrom(a, d, 1, 0))

\* a * Base^k
BigShift(a, k) == IF a = << >> THEN a ELSE [i \in 1..k |-> 0] \o a

RECURSIVE MulFrom(_, _, _)
MulFrom(a, b, i) ==
    IF i > Len(b) THEN << >>
    ELSE BigAdd(BigShift(BigMulSmall(a, b[i]), i - 1), MulFrom(a, b, i + 1))

BigMul(a, b) == MulFrom(a, b, 1)

RECURSIVE LeqFrom(_, _, _)
LeqFrom(a, b, i) ==
    IF i = 0 THEN TRUE
    ELSE IF a[i] # b[i] THEN a[i] < b[i]
    ELSE LeqFrom(a, b, i - 1)

BigLeq(a, b) ==
    IF Len(a) # Len(b) THEN Len(a) < Len(b) ELSE LeqFrom(a, b, Len(a))

\* 2^k
BigPow2(k) == BigShift(<<2 ^ (k % 15)>>, k \div 15)

\* The largest digit q with b * q <= rem, found bit by bit.
RECURSIVE QDigit(_, _, _, _)
QDigit(rem, b, q, bit) ==
    IF bit < 0 THEN q
    ELSE LET t == q + 2 ^ bit
         IN  IF BigLeq(BigMulSmall(b, t), rem)
             THEN QDigit(rem, b, t, bit - 1)
             ELSE QDigit(rem, b, q, bit - 1)

\* Long division of a by b > 0 from digit i down: quotient digits and rest.
RECURSIVE DivFrom(_, _, _, _)
DivFrom(a, b, i, rem) ==
    IF i = 0 THEN [q |-> << >>, r |-> rem]
    ELSE LET cur  == BigNorm(<<a[i]>> \o rem)
             qd   == QDigit(cur, b, 0, 14)
             rest == DivFrom(a, b, i - 1, BigSub(cur, BigMulSmall(b, qd)))
         IN  [q |-> rest.q \o <<qd>>, r |-> rest.r]

\* floor(a / b), b > 0
BigDiv(a, b) == BigNorm(DivFrom(a, b, Len(a), << >>).q)

\* The value of a as an Int, for a < 2^31.
RECURSIVE BigToInt(_)
BigToInt(a) ==
    IF a = << >> THEN 0 ELSE a[1] + Base * BigToInt(SubSeq(a, 2, Len(a)))

------------------------------------------------------------------------------
\* f64 as exact non-negative rationals n/d, d > 0.

Rat(n, d) == [n |-> Big(n), d |-> Big(d)]

RatOfBig(n) == [n |-> n, d |-> <<1>>]

RatMul(x, y) == [n |-> BigMul(x.n, y.n), d |-> BigMul(x.d, y.d)]

\* x / y, y > 0
RatDiv(x, y) == [n |-> BigMul(x.n, y.d), d |-> BigMul(x.d, y.n)]

RatAdd(x, y) ==
    [n |-> BigAdd(BigMul(x.n, y.d), BigMul(y.n, x.d)), d |-> BigMul(x.d, y.d)]

\* x <= y
RatLeq(x, y) == BigLeq(BigMul(x.n, y.d), BigMul(y.n, x.d))

RatEq(x, y) == BigMul(x.n, y.d) = BigMul(y.n, x.d)

\* x.powi(2)
RatPowi2(x) == RatMul(x, x)

\* floor(x)
RatFloor(x) == BigDiv(x.n, x.d)

\* A float as the value of an expression: an exact number, a * ln(x) or
\* -a * ln(1 - y) with ln left symbolic (ln(1) = 0 exactly), a / sqrt(x).
Num(x) == [op |-> "num", v |-> x]

MulLn(a, x) ==
    IF RatEq(x, Rat(1, 1)) THEN Num(Rat(0, 1))
    ELSE [op |-> "mul_ln", a |-> a, x |-> x]

NegMulLnOneMinus(a, y) ==
    IF y.n = << >> THEN Num(Rat(0, 1))
    ELSE [op |-> "neg_mul_ln_one_minus", a |-> a, y |-> y]

DivSqrt(a, x) == [op |-> "div_sqrt", a |-> a, x |-> x]

\* f as usize: truncation toward zero, saturating at usize::MAX.
AsUsize(f) ==
    IF f.op = "num"
    THEN LET q == RatFloor(f.v)
         IN  IF BigLeq(q, Big(2147483647)) THEN [op |-> "usize", v |-> BigToInt(q)]
             ELSE IF BigLeq(BigPow2(64), q)
                  THEN [op |-> "usize_big", digits |-> BigSub(BigPow2(64), <<1>>)]
                  ELSE [op |-> "usize_big", digits |-> q]
    ELSE [op |-> "as_usize", of |-> f]

------------------------------------------------------------------------------
\* HyperLogLog

TWO_POW_32 == RatOfBig(BigPow2(32))

ERROR_RATE == Rat(8, 1000)

\* The floor of log2 in place of the ceiling.
log2_floor(x) ==
    CHOOSE k \in 0..64 :
        /\ RatLeq(RatOfBig(BigPow2(k)), x)
        /\ \A i \in (k + 1)..64 : ~RatLeq(RatOfBig(BigPow2(i)), x)

\* x.log2().ceil() as usize for x > 0: the least k >= 0 with x <= 2^k.
log2_ceil(x) ==
    CHOOSE k \in 0..64 :
        /\ RatLeq(x, RatOfBig(BigPow2(k)))
        /\ \A i \in 0..(k - 1) : ~RatLeq(x, RatOfBig(BigPow2(i)))

\* HyperLogLog::new() -> Result<Self, String>
new ==
    LET b          == log2_ceil(RatPowi2(RatDiv(Rat(104, 100), ERROR_RATE)))
        m_counters == 2 ^ b
        alpha      == CASE m_counters = 16 -> Rat(673, 1000)
                        [] m_counters = 32 -> Rat(697, 1000)
                        [] m_counters = 64 -> Rat(709, 1000)
                        [] OTHER -> RatDiv(Rat(7213, 10000),
                                           RatAdd(Rat(1, 1),
                                                  RatDiv(Rat(1079, 1000),
                                                         Rat(m_counters, 1))))
    IN  IF m_counters < 16
        THEN [ok |-> FALSE, err |-> "error rate too high counters are below 16"]
        ELSE [ok  |-> TRUE,
              val |-> [b          |-> b,
                       hasher     |-> DefaultHasher_new,
                       m          |-> VecZero(m_counters),
                       m_counters |-> m_counters,
                       alpha      |-> alpha]]

\* HyperLogLog::add(&mut self, data): self afterwards, the locals, and
\* whether the indexing self.m[j] panicked (j out of bounds).
add(self, data) ==
    LET hasher         == HashWrite(self.hasher, data)
        hash           == Finish(hasher)
        j              == ToNat(Shr(hash, 64 - self.b))
        estimate_bits  == BitAnd(hash, LowMask(64 - self.b))
        trailing_zeros == leading_zeros(estimate_bits) + 1
        panic          == j >= self.m.len
    IN  [self |-> IF panic THEN self
                  ELSE [self EXCEPT
                          !.m = VecSet(self.m, j, Max(VecGet(self.m, j), trailing_zeros))],
         hash |-> hash, j |-> j, trailing_zeros |-> trailing_zeros, panic |-> panic]

\* The small range without the linear counting of its empty_counters > 0 case.
range_correction_no_linear(estimate, m_counters, empty_counters) ==
    IF RatLeq(estimate, RatMul(Rat(5, 2), m_counters)) THEN Num(estimate)
    ELSE IF RatLeq(estimate, RatDiv(TWO_POW_32, Rat(30, 1))) THEN Num(estimate)
    ELSE NegMulLnOneMinus(TWO_POW_32, RatDiv(estimate, TWO_POW_32))

\* The guards with < in place of <=.
range_correction_strict(estimate, m_counters, empty_counters) ==
    IF ~RatLeq(RatMul(Rat(5, 2), m_counters), estimate)
    THEN IF empty_counters > 0
         THEN MulLn(m_counters, RatDiv(m_counters, Rat(empty_counters, 1)))
         ELSE Num(estimate)
    ELSE IF ~RatLeq(RatDiv(TWO_POW_32, Rat(30, 1)), estimate) THEN Num(estimate)
    ELSE NegMulLnOneMinus(TWO_POW_32, RatDiv(estimate, TWO_POW_32))

\* HyperLogLog::range_correction(&self, estimate, m_counters, empty_counters)
range_correction(estimate, m_counters, empty_counters) ==
    IF RatLeq(estimate, RatMul(Rat(5, 2), m_counters))
    THEN IF empty_counters > 0
         THEN MulLn(m_counters, RatDiv(m_counters, Rat(empty_counters, 1)))
         ELSE Num(estimate)
    ELSE IF RatLeq(estimate, RatDiv(TWO_POW_32, Rat(30, 1))) THEN Num(estimate)
    ELSE NegMulLnOneMinus(TWO_POW_32, RatDiv(estimate, TWO_POW_32))

\* The sum of 2^(r - nz[j]) over the indices j in S.
RECURSIVE SumPow2(_, _, _)
SumPow2(nz, S, r) ==
    IF S = {} THEN << >>
    ELSE LET j == CHOOSE k \in S : TRUE
         IN  BigAdd(BigPow2(r - nz[j]), SumPow2(nz, S \ {j}, r))

\* The z of count: the sum of 2^(-v) over the registers v, as a fraction of
\* denominator 2^r, r the largest register.
SumZ(v) ==
    LET r == IF DOMAIN v.nz = {} THEN 0
             ELSE CHOOSE x \in {v.nz[j] : j \in DOMAIN v.nz} :
                      \A j \in DOMAIN v.nz : v.nz[j] <= x
    IN  [n |-> BigAdd(BigMul(Big(VecZeros(v)), BigPow2(r)),
                      SumPow2(v.nz, DOMAIN v.nz, r)),
         d |-> BigPow2(r)]

\* HyperLogLog::count(&self) -> usize, with its locals.
count(self) ==
    LET z              == SumZ(self.m)
        empty_counters == VecZeros(self.m)
        m_counters     == Rat(self.m_counters, 1)
        estimate       == RatDiv(RatMul(self.alpha, RatPowi2(m_counters)), z)
    IN  [z |-> z, empty_counters |-> empty_counters, estimate |-> estimate,
         result |-> AsUsize(range_correction(estimate, m_counters, empty_counters))]

\* The registers of other taken over in place of the pairwise maximum.
merge_assign(self, other) ==
    [self  |-> [self EXCEPT !.m = [len |-> self.m.len,
                                   nz  |-> [k \in {j \in DOMAIN other.m.nz : j < self.m.len}
                                              |-> other.m.nz[k]]]],
     panic |-> self.m.len > other.m.len]

\* HyperLogLog::merge(mut self, other): the local self as it is when merge
\* returns and drops it, and whether other.m[j] panicked (j out of bounds).
merge(self, other) ==
    [self  |-> [self EXCEPT !.m = [len |-> self.m.len,
                                   nz  |-> [k \in {j \in DOMAIN self.m.nz \cup DOMAIN other.m.nz :
                                                     j < self.m.len /\ j < other.m.len}
                                              |-> Max(VecGet(self.m, k), VecGet(other.m, k))]]],
     panic |-> self.m.len > other.m.len]

\* HyperLogLog::error(self) -> f64
error(self) == DivSqrt(Rat(104, 100), Rat(2 ^ self.b, 1))

------------------------------------------------------------------------------
\* The caller.

Init ==
    /\ new.ok
    /\ est = [e \in Handles |-> new.val]
    /\ live = Handles
    /\ call = [op |-> "new"]
    /\ added = [e \in Handles |-> {}]

\* e.add(data)
CallAdd(e, data) ==
    /\ e \in live
    /\ Cardinality(added[e] \cup {data}) <= MaxAdds
    /\ LET r == add(est[e], data)
       IN  /\ est' = [est EXCEPT ![e] = r.self]
           /\ live' = IF r.panic THEN {} ELSE live
           /\ call' = [op |-> "add", self |-> e, data |-> data, hash |-> r.hash,
                       j |-> r.j, trailing_zeros |-> r.trailing_zeros,
                       panic |-> r.panic]
    /\ added' = [added EXCEPT ![e] = @ \cup {data}]

\* e.count()
CallCount(e) ==
    /\ e \in live
    /\ LET r == count(est[e])
       IN  call' = [op |-> "count", self |-> e, z |-> r.z,
                    empty_counters |-> r.empty_counters, estimate |-> r.estimate,
                    result |-> r.result]
    /\ UNCHANGED <<est, live, added>>

\* e.error(): self is taken by value, so the binding e is moved.
CallError(e) ==
    /\ e \in live
    /\ call' = [op |-> "error", self |-> e, result |-> error(est[e])]
    /\ live' = live \ {e}
    /\ UNCHANGED <<est, added>>

\* e.merge(o): self and other are taken by value and nothing is returned, so
\* both bindings are moved and the merged self is dropped.
CallMerge(e, o) ==
    /\ e \in live
    /\ o \in live
    /\ e # o
    /\ LET r == merge(est[e], est[o])
       IN  /\ est' = [est EXCEPT ![e] = r.self]
           /\ live' = IF r.panic THEN {} ELSE live \ {e, o}
           /\ call' = [op |-> "merge", self |-> e, other |-> o,
                       self_b |-> est[e].b, other_b |-> est[o].b,
                       self_m |-> est[e].m, other_m |-> est[o].m,
                       panic |-> r.panic, result |-> "unit"]
    /\ UNCHANGED added

\* e.b = nb: the field b is pub.
WriteB(e, nb) ==
    /\ e \in live
    /\ est[e].b # nb
    /\ est' = [est EXCEPT ![e].b = nb]
    /\ call' = [op |-> "write_b", self |-> e, b |-> nb]
    /\ UNCHANGED <<live, added>>

Next ==
    \E e \in Handles :
        \/ \E data \in Values : CallAdd(e, data)
        \/ CallCount(e)
        \/ CallError(e)
        \/ \E o \in Handles : CallMerge(e, o)

Spec == Init /\ [][Next]_vars

\* The calls with the caller writing the pub field b between them.
NextPub ==
    \E e \in Handles :
        \/ \E data \in Values : CallAdd(e, data)
        \/ \E nb \in PubBits : WriteB(e, nb)
        \/ \E o \in Handles : CallMerge(e, o)

SpecPub == Init /\ [][NextPub]_vars

\* The f64 estimates handed to range_correction, around its two thresholds.
EstimateSamples(mc) ==
    {Rat(1, 1), Rat(5 * mc - 1, 2), Rat(5 * mc, 2), Rat(5 * mc + 1, 2),
     Rat(1000000, 1),
     [n |-> BigSub(BigPow2(32), <<1>>), d |-> Big(30)],
     [n |-> BigPow2(32), d |-> Big(30)],
     [n |-> BigAdd(BigPow2(32), <<1>>), d |-> Big(30)],
     RatOfBig(BigPow2(31)), RatOfBig(BigPow2(33))}

\* self.range_correction(estimate, m_counters, empty_counters)
CallRangeCorrection ==
    \E mc \in {16, 64, 32768} :
        \E empty_counters \in {0, 1, mc \div 2, mc} :
            \E estimate \in EstimateSamples(mc) :
                /\ call' = [op |-> "range_correction", estimate |-> estimate,
                            m_counters |-> mc, empty_counters |-> empty_counters,
                            result |-> range_correction(estimate, Rat(mc, 1),
                                                        empty_counters)]
                /\ UNCHANGED <<est, live, added>>

NextRC == CallRangeCorrection

SpecRC == Init /\ [][NextRC]_vars

------------------------------------------------------------------------------
\* Properties.

\* The rank of the low (64 - b)-bit field of x: its leading zeros counted
\* within the field, plus 1 (64 - b + 1 for a zero field).
FieldRank(x, b) ==
    LET ones == {i \in (b + 1)..64 : x[i] = 1}
    IN  IF ones = {} THEN 64 - b + 1
        ELSE (CHOOSE i \in ones : \A k \in ones : i <= k) - b

\* The number written by the top b bits of x.
RECURSIVE TopBits(_, _)
TopBits(x, b) == IF b = 0 THEN 0 ELSE 2 * TopBits(x, b - 1) + x[b]

SetMax(S) == CHOOSE x \in S : \A y \in S : y <= x

\* The register vector a set of strings determines: each register holds the
\* largest rank among the strings of the set that fall into it.
RegsOfSet(S) ==
    LET one(v) == add(new.val, v)
    IN  [len |-> new.val.m.len,
         nz  |-> [j \in {one(v).j : v \in S} |->
                    SetMax({one(v).trailing_zeros : v \in {u \in S : one(u).j = j}})]]

\* The pairwise maximum of two register vectors of one length.
PairwiseMax(x, y) ==
    [len |-> x.len,
     nz  |-> [k \in DOMAIN x.nz \cup DOMAIN y.nz |->
                IF VecGet(x, k) >= VecGet(y, k) THEN VecGet(x, k) ELSE VecGet(y, k)]]

\* C1: the rank add computes for a hash x is the number of leading zero bits
\* of w within its (64 - b)-bit field plus 1, w the low 64 - b bits of x; so
\* it lies in 1..(64 - b + 1) and is 64 - b + 1 for w = 0.
C1_RankWithinField ==
    call.op = "add" =>
        LET b == est[call.self].b
        IN  /\ call.trailing_zeros = FieldRank(call.hash, b)
            /\ 1 <= call.trailing_zeros
            /\ call.trailing_zeros <= 64 - b + 1

\* C2: after merge the caller holds a usable merged estimator whose registers
\* are the pairwise maximum of the two operands' registers, the registers of
\* one estimator fed both streams.
C2_MergeYieldsUsableUnion ==
    call.op = "merge" =>
        /\ call.self \in live
        /\ est[call.self].m = PairwiseMax(call.self_m, call.other_m)
        /\ est[call.self].m = RegsOfSet(added[call.self] \cup added[call.other])

\* C3: the registers of an estimator that was only fed by add depend only on
\* the set of strings added, whatever their order and repetitions.
C3_RegistersDependOnSetOnly ==
    \A e \in live : est[e].m = RegsOfSet(added[e])

\* C3 witness: an add whose rank is below the one its register already holds,
\* on an estimator fed two distinct strings.
C3_Witness ==
    /\ call.op = "add"
    /\ call.self \in live
    /\ Cardinality(added[call.self]) = 2
    /\ call.trailing_zeros < VecGet(est[call.self].m, call.j)

\* C4: merge of two estimators whose precision differs is rejected with a
\* ConfigurationMismatch outcome and leaves both register vectors as they were.
C4_MismatchRejected ==
    (call.op = "merge" /\ call.self_b # call.other_b) =>
        /\ call.result = "ConfigurationMismatch"
        /\ ~call.panic
        /\ est[call.self].m = call.self_m
        /\ est[call.other].m = call.other_m

\* C5 as stated: the estimator built with error rate 0.008 has 65536 registers.
C5_Default65536 ==
    \A e \in Handles : est[e].m_counters = 65536 /\ est[e].m.len = 65536

\* C5 amended: the estimator built with error rate 0.008 has b = 15 and
\* 32768 registers.
C5_Default32768 ==
    \A e \in Handles :
        est[e].b = 15 /\ est[e].m_counters = 32768 /\ est[e].m.len = 32768

\* C5 witness: the state construction leaves.
C5_Witness == call.op = "new" /\ live = Handles /\ \A e \in Handles : est[e].m.nz = << >>

\* C6: count on an estimator whose registers are all 0 returns 0: the raw
\* estimate is alpha * m, in the small range, and every register is empty.
C6_FreshCountIsZero ==
    (call.op = "count" /\ DOMAIN est[call.self].m.nz = {}) =>
        LET h == est[call.self]
        IN  /\ call.result = [op |-> "usize", v |-> 0]
            /\ call.empty_counters = h.m_counters
            /\ call.empty_counters > 0
            /\ RatEq(call.estimate, RatMul(h.alpha, Rat(h.m_counters, 1)))
            /\ BigLeq(BigMul(Big(2), call.estimate.n),
                      BigMul(Big(5 * h.m_counters), call.estimate.d))

\* C6 witness: count was called on an estimator nothing was added to.
C6_Witness ==
    /\ call.op = "count"
    /\ added[call.self] = {}
    /\ DOMAIN est[call.self].m.nz = {}

\* C7: a call of count or error changes no field of the estimator and leaves
\* it usable for further calls.
C7_ReadsAreNonDestructive ==
    [][call'.op \in {"count", "error"} =>
         (est' = est /\ live' = live /\ call'.self \in live')]_vars

\* C8: in every step no register decreases and the register vector keeps the
\* length m = 2^b.
C8_RegistersMonotone ==
    [][\A e \in Handles :
         /\ est'[e].m.len = est[e].m.len
         /\ est'[e].m.len = est'[e].m_counters
         /\ est'[e].m_counters = 2 ^ est'[e].b
         /\ \A j \in DOMAIN est[e].m.nz : VecGet(est'[e].m, j) >= est[e].m.nz[j]]_vars

\* C8 witness: a merge that raised a register of self.
C8_Witness ==
    /\ call.op = "merge"
    /\ est[call.self].m # call.self_m
    /\ call.self_m.nz # << >>

\* C9: an add has no error outcome and changes only the register at
\* j = x >> (64 - b), 0 <= j < m; the other registers, b, m, alpha and the
\* hasher stay as they were.
C9_AddTouchesOneRegister ==
    [][call'.op = "add" =>
         LET e == call'.self
             j == call'.j
         IN  /\ ~call'.panic
             /\ live' = live
             /\ j = TopBits(call'.hash, est[e].b)
             /\ 0 <= j
             /\ j < est[e].m_counters
             /\ est'[e].m.len = est[e].m.len
             /\ \A k \in (DOMAIN est[e].m.nz \cup DOMAIN est'[e].m.nz) \ {j} :
                    VecGet(est'[e].m, k) = VecGet(est[e].m, k)
             /\ est'[e].b = est[e].b
             /\ est'[e].m_counters = est[e].m_counters
             /\ est'[e].alpha = est[e].alpha
             /\ est'[e].hasher = est[e].hasher
             /\ \A o \in Handles \ {e} : est'[o] = est[o]]_vars

\* C9 witness: an add into a register other than 0 of an estimator that has
\* another non-zero register.
C9_Witness ==
    /\ call.op = "add"
    /\ call.j > 0
    /\ Cardinality(DOMAIN est[call.self].m.nz) = 2

\* C10: range_correction takes the small range for E <= 2.5 m (linear counting
\* for empty > 0, else E), the intermediate range for 2.5 m < E <= 2^32/30
\* (E) and the large range above; E = 2.5 m is small and E = 2^32/30 is
\* intermediate.
C10_BranchSelection ==
    call.op = "range_correction" =>
        LET E     == call.estimate
            mc    == call.m_counters
            k     == call.empty_counters
            small == BigLeq(BigMul(Big(2), E.n), BigMul(Big(5 * mc), E.d))
            upto  == BigLeq(BigMul(Big(30), E.n), BigMul(BigPow2(32), E.d))
            lin   == IF k = mc THEN Num(Rat(0, 1))
                     ELSE [op |-> "mul_ln", a |-> Rat(mc, 1),
                           x |-> RatDiv(Rat(mc, 1), Rat(k, 1))]
            large == [op |-> "neg_mul_ln_one_minus", a |-> TWO_POW_32,
                      y |-> RatDiv(E, TWO_POW_32)]
        IN  /\ (small /\ k > 0) => call.result = lin
            /\ (small /\ k = 0) => call.result = Num(E)
            /\ (~small /\ upto) => call.result = Num(E)
            /\ (~small /\ ~upto) => call.result = large
            /\ (E = Rat(5 * mc, 2) /\ k > 0) => call.result = lin
            /\ E = [n |-> BigPow2(32), d |-> Big(30)] => call.result = Num(E)

\* C10 witness: range_correction was given the estimate 2^32/30 exactly.
C10_Witness ==
    /\ call.op = "range_correction"
    /\ call.estimate = [n |-> BigPow2(32), d |-> Big(30)]
    /\ call.result = Num(call.estimate)

====
